---------------------------- MODULE Spec2Model ----------------------------
(***************************************************************************)
(* A model of one lattice cell of the SpiNNaker lattice-Boltzmann code:    *)
(*   pythonCode/lattice_basic_cell.py  (class LatticeBasicCell)            *)
(*   pythonCode/global.py              (generate_offset)                   *)
(*                                                                         *)
(* The data-specification sink, the machine graph, the routing-info        *)
(* service and the buffer manager are libraries outside the repository;    *)
(* they are represented by the arguments the methods receive and by the    *)
(* log of the calls the methods make on them.                              *)
(***************************************************************************)
EXTENDS Integers, Sequences, FiniteSets, TLC

VARIABLES node, gen, resources, off, data, wired

vars == <<node, gen, resources, off, data, wired>>

-----------------------------------------------------------------------------
(* Optional values: Python's None is the empty tuple, a value v is <<v>>.  *)

None == <<>>

Some(v) == <<v>>

Get(o) == o[1]

-----------------------------------------------------------------------------
(* Bounds of the model.                                                    *)

\* the largest number of edges ending at the node that a graph holds
MaxEdges == 9

\* the largest number of simulation timesteps passed as data_n_time_steps
MaxSteps == 2

\* random.random() is drawn from {0/DrawDen, ..., (DrawDen-1)/DrawDen}
DrawDen == 4

\* the largest core-slot index handed to generate_offset on its own
MaxCore == 18

\* the largest number of samples recorded before get_data is called
MaxSamples == 2

-----------------------------------------------------------------------------
(* Program constants.                                                      *)

BYTES_PER_WORD == 4

PARTITION_ID == "STATE"

TRANSMISSION_DATA_SIZE == 2 * BYTES_PER_WORD

STATE_DATA_SIZE == BYTES_PER_WORD

RECORDING_ELEMENT_SIZE == STATE_DATA_SIZE

POSITION_DATA_SIZE == 2 * BYTES_PER_WORD

NEIGHBOUR_KEYS_SIZE == 9 * BYTES_PER_WORD

VELOCITY_SIZE == 2 * BYTES_PER_WORD

VERTEX_INDEX_SIZE == 2 * BYTES_PER_WORD

ORDER_OF_DIRECTIONS == <<"N", "W", "S", "E", "NW", "SW", "SE", "NE">>

\* DATA_REGIONS: the value of each member of the enumeration
SYSTEM == 0

TRANSMISSIONS == 1

POSITION == 2

NEIGHBOUR_KEYS == 3

VELOCITY == 4

VERTEX_INDEX == 5

RESULTS == 6

cores_per_chip == 10

max_offset == 1500

-----------------------------------------------------------------------------
(* Byte sizes.  Three quantities come from the front-end library and have  *)
(* no value in the repository: SYSTEM_BYTES_REQUIREMENT,                   *)
(* get_recording_header_size(1) and get_recording_data_constant_size(1).   *)
(* A size is therefore kept as a sum                                       *)
(*   bytes + sys * SYSTEM_BYTES_REQUIREMENT + hdr * header_size(1)         *)
(*         + cst * data_constant_size(1)                                   *)
(* and two sizes are equal when the four coefficients are.                 *)

Size(b, s, h, c) == [bytes |-> b, sys |-> s, hdr |-> h, cst |-> c]

Bytes(b) == Size(b, 0, 0, 0)

SizeAdd(a, b) ==
    Size(a.bytes + b.bytes, a.sys + b.sys, a.hdr + b.hdr, a.cst + b.cst)

SYSTEM_BYTES_REQUIREMENT == Size(0, 1, 0, 0)

get_recording_header_size_1 == Size(0, 0, 1, 0)

get_recording_data_constant_size_1 == Size(0, 0, 0, 1)

-----------------------------------------------------------------------------
(* The node.                                                                *)

Self == 0

Directions == {ORDER_OF_DIRECTIONS[i] : i \in 1..Len(ORDER_OF_DIRECTIONS)}

\* __init__: the OrderedDict _loccation_vertices holds the eight directions,
\* in ORDER_OF_DIRECTIONS order, each mapped to None.  An OrderedDict is a
\* sequence of (key, value) entries in insertion order.
NewNode(x, y, ux, uy) ==
    [x_position |-> x, y_position |-> y, u_x |-> ux, u_y |-> uy,
     loc |-> [i \in 1..Len(ORDER_OF_DIRECTIONS) |->
                 [dir |-> ORDER_OF_DIRECTIONS[i], vertex |-> None]],
     offset |-> None]

HasKey(loc, d) == \E i \in 1..Len(loc) : loc[i].dir = d

\* loc[d] of the OrderedDict (d is a key of it)
Lookup(loc, d) == loc[CHOOSE i \in 1..Len(loc) : loc[i].dir = d].vertex

\* loc[d] = v of the OrderedDict: an existing key keeps its place, a new key
\* is appended
DictSet(loc, d, v) ==
    IF HasKey(loc, d)
    THEN [i \in 1..Len(loc) |->
             IF loc[i].dir = d THEN [dir |-> d, vertex |-> v] ELSE loc[i]]
    ELSE Append(loc, [dir |-> d, vertex |-> v])

\* a variant of set_direction_vertex that keeps the vertex a direction has
set_direction_vertex_keep(n, d, v) ==
    IF HasKey(n.loc, d) /\ Lookup(n.loc, d) # None
    THEN n
    ELSE [n EXCEPT !.loc = DictSet(n.loc, d, Some(v))]

\* set_direction_vertex(direction, vertex)
set_direction_vertex(n, d, v) == [n EXCEPT !.loc = DictSet(n.loc, d, Some(v))]


-----------------------------------------------------------------------------
(* global.py                                                               *)

\* math.ceil(n / d) for d > 0
Ceil(n, d) == -((-n) \div d)

\* int(n / d) for d > 0: truncation toward zero
Trunc(n, d) == IF n >= 0 THEN n \div d ELSE -((-n) \div d)

\* the first statement of generate_offset, with random.random() = r1 / DrawDen:
\* math.ceil((processor - random.random()) / (cores_per_chip + 4) * max_offset)
first_delay(processor, r1) ==
    Ceil((processor * DrawDen - r1) * max_offset, (cores_per_chip + 4) * DrawDen)

\* the replacement taken when the first delay exceeds max_offset, with the
\* second random.random() = r2 / DrawDen, after the int() of the return:
\* int(max_offset - random.random() / cores_per_chip * max_offset)
fallback_delay(r2) ==
    Trunc(max_offset * cores_per_chip * DrawDen - r2 * max_offset,
          cores_per_chip * DrawDen)

\* a variant of generate_offset without the replacement of a large delay
generate_offset_uncapped(processor, r1, r2) == first_delay(processor, r1)

\* generate_offset(processor); r1 and r2 are the numerators of the draws
generate_offset(processor, r1, r2) ==
    IF first_delay(processor, r1) > max_offset
    THEN fallback_delay(r2)
    ELSE first_delay(processor, r1)

\* the number of draws generate_offset takes from the random stream
draws_taken(processor, r1) ==
    IF first_delay(processor, r1) > max_offset THEN 2 ELSE 1

-----------------------------------------------------------------------------
(* The arguments of generate_machine_data_specification.                   *)
(*   graph.parts   the outgoing edge partitions starting at the node       *)
(*   graph.edges   the edges ending at the node, each with its source      *)
(*                 vertex and the name of its partition                    *)
(*   graph.index   machine_graph.vertices.index(self)                      *)
(*   routing[v]    the keys_and_masks of the routing info of (v, "STATE"), *)
(*                 <<>> when the service has no routing info for v         *)
(*   p             placement.p                                             *)
(*   n_time_steps  data_n_time_steps                                       *)
(*   bound         whether the name generate_offset is bound in the module *)
(*                 lattice_basic_cell when the method runs                 *)
(*   r1, r2        the next two draws of the random stream                 *)

Vertices == 0..(Len(ORDER_OF_DIRECTIONS) + 1)

\* The neighbour a grid gives direction d: the d-th vertex
Proper(d) == CHOOSE i \in 1..Len(ORDER_OF_DIRECTIONS) : ORDER_OF_DIRECTIONS[i] = d

\* n edges ending at the node: edge i comes from vertex i, but the edge at
\* selfPos comes from the node itself, edge 2 repeats the source of edge 1
\* when dupe, and the first `other` edges lie in another partition
MkEdges(n, selfPos, dupe, other) ==
    [i \in 1..n |->
        [pre_vertex |-> IF i = selfPos THEN Self
                        ELSE IF dupe /\ i = 2 THEN 1 ELSE i,
         partition |-> IF i <= other THEN "OTHER" ELSE PARTITION_ID]]

PartitionSets == SUBSET {PARTITION_ID, "OTHER"}

MkGraph(parts, edges) == [parts |-> parts, edges |-> edges, index |-> 2]

BaseGraph == MkGraph({PARTITION_ID}, MkEdges(8, 0, FALSE, 0))

Graphs ==
    {MkGraph(ps, MkEdges(n, 0, FALSE, 0)) : ps \in PartitionSets, n \in 0..MaxEdges}
    \cup {MkGraph({PARTITION_ID}, MkEdges(n, s, FALSE, 0)) : n \in {7, 8}, s \in 1..7}
    \cup {MkGraph({PARTITION_ID}, MkEdges(8, 8, FALSE, 0)),
          MkGraph({}, MkEdges(8, 1, FALSE, 0)),
          MkGraph({PARTITION_ID}, MkEdges(8, 0, TRUE, 0)),
          MkGraph({PARTITION_ID}, MkEdges(8, 0, FALSE, 1)),
          MkGraph({PARTITION_ID}, MkEdges(MaxEdges, 0, FALSE, 1))}

\* routing info: vertex v holds the keys b + 8v and b + 8v + 1, each with a
\* mask of its own, except that the service has nothing for vertex `missing`
\* and hands out a key of None for vertex `nokey`
MkRouting(b, missing, nokey) ==
    [v \in Vertices |->
        IF v = missing THEN <<>>
        ELSE <<[key |-> IF v = nokey THEN None ELSE Some(b + 8 * v),
                mask |-> 2147483640 - 16 * v],
               [key |-> Some(b + 8 * v + 1), mask |-> 2147483632]>>]

BaseRouting == MkRouting(4096, -1, -1)

Routings ==
    {MkRouting(b, -1, -1) : b \in {0, 4096}}
    \cup {MkRouting(4096, m, -1) : m \in {Self, Proper("N"), Proper("S")}}
    \cup {MkRouting(4096, -1, k) : k \in {Self, Proper("N"), Proper("S")}}

MkArgs(g, rt, p, n, b, r1, r2) ==
    [graph |-> g, routing |-> rt, p |-> p, n_time_steps |-> n, bound |-> b,
     r1 |-> r1, r2 |-> r2]

Draws == 0..(DrawDen - 1)

Arguments ==
    {MkArgs(g, BaseRouting, 1, 1, TRUE, 0, 0) : g \in Graphs}
    \cup {MkArgs(BaseGraph, rt, 1, 1, TRUE, 0, 0) : rt \in Routings}
    \cup {MkArgs(BaseGraph, BaseRouting, p, 1, TRUE, r1, r2) :
             p \in {1, 16}, r1 \in {0, DrawDen - 1}, r2 \in {0, DrawDen - 1}}
    \cup {MkArgs(BaseGraph, BaseRouting, 1, n, b, 0, 0) :
             n \in {0, MaxSteps}, b \in BOOLEAN}

-----------------------------------------------------------------------------
(* The calls made on the data-specification sink `spec`, in order.         *)

Call(op, region, size, value, dtype) ==
    [op |-> op, region |-> region, size |-> size, value |-> value, dtype |-> dtype]

Reserve(region, size) == Call("reserve_memory_region", region, size, 0, "")

Focus(region) == Call("switch_write_focus", region, Bytes(0), 0, "")

\* write_value: the region is the one in focus when the call is made
Write(region, value, dtype) == Call("write_value", region, Bytes(0), value, dtype)

WriteArray(region, value) == Call("write_array", region, Bytes(0), value, "")

EndSpec == Call("end_specification", -1, Bytes(0), 0, "")

NoErr == [kind |-> "none", text |-> "", count |-> 0]

Raise(kind, text, count) == [kind |-> kind, text |-> text, count |-> count]

\* a run of the method: the calls made so far, the region in focus, the
\* exception that ended it, and self.offset
NewRun(n) == [calls |-> <<>>, focus |-> -1, err |-> NoErr, offset |-> n.offset]

Do(r, call) == [r EXCEPT !.calls = Append(@, call)]

SwitchFocus(r, region) ==
    [r EXCEPT !.calls = Append(@, Focus(region)), !.focus = region]

WriteValue(r, value, dtype) == Do(r, Write(r.focus, value, dtype))

Fail(r, e) == [r EXCEPT !.err = e]

-----------------------------------------------------------------------------
(* The routing-info service.                                               *)

\* routing_info.get_routing_info_from_pre_vertex(vertex, PARTITION_ID): the
\* keys_and_masks of the routing info, <<>> (None) when there is none; the
\* vertex is that of a direction, None while the direction is not wired
get_routing_info_from_pre_vertex(routing, vertex) ==
    IF vertex = None THEN <<>> ELSE routing[Get(vertex)]

\* routing_info.get_first_key_from_pre_vertex(vertex, PARTITION_ID)
get_first_key_from_pre_vertex(routing, v) ==
    IF routing[v] = <<>> THEN None ELSE routing[v][1].key

-----------------------------------------------------------------------------
(* LatticeBasicCell._write_key_data                                        *)

\* graph.get_edges_ending_at_vertex_with_partition_name(self, PARTITION_ID)
get_edges_ending_at_vertex_with_partition_name(graph, name) ==
    SelectSeq(graph.edges, LAMBDA e : e.partition = name)

\* one turn of `for direction in self._loccation_vertices`
write_one_key(a, r, entry) ==
    LET info == get_routing_info_from_pre_vertex(a.routing, entry.vertex)
    IN  IF info = <<>>
        THEN Fail(r, Raise("AttributeError", "keys_and_masks", 0))
        ELSE IF info[1].key # None
             THEN WriteValue(r, Get(info[1].key), "UINT32")
             ELSE WriteValue(r, -1, "INT32")

\* the loop from entry i of the dictionary on; an exception ends it
RECURSIVE write_keys_from(_, _, _, _)
write_keys_from(n, a, r, i) ==
    IF i > Len(n.loc) \/ r.err # NoErr
    THEN r
    ELSE write_keys_from(n, a, write_one_key(a, r, n.loc[i]), i + 1)

\* the mask of the neighbour wired to "S", written last
write_mask(n, a, r) ==
    LET info == get_routing_info_from_pre_vertex(a.routing, Lookup(n.loc, "S"))
    IN  IF info = <<>>
        THEN Fail(r, Raise("AttributeError", "keys_and_masks", 0))
        ELSE WriteValue(r, info[1].mask, "UINT32")

write_key_data(n, a, r0) ==
    LET r == SwitchFocus(r0, NEIGHBOUR_KEYS)
        incoming == get_edges_ending_at_vertex_with_partition_name(
                        a.graph, PARTITION_ID)
    IN  IF Len(incoming) # 8
        THEN Fail(r, Raise("ConfigurationException", "Should only have 8 edges", 0))
        ELSE LET k == write_keys_from(n, a, r, 1)
             IN  IF k.err # NoErr THEN k ELSE write_mask(n, a, k)

-----------------------------------------------------------------------------
(* LatticeBasicCell.generate_machine_data_specification, statement by      *)
(* statement.  Each part takes the run so far and returns the run after    *)
(* it; a run that has raised is left as it is.                             *)

\* generate_system_data_region(spec, SYSTEM, ...): the library reserves the
\* System region, switches to it and writes it
system_data_region(r) ==
    [r EXCEPT !.calls = Append(@, Call("generate_system_data_region", SYSTEM,
                                       Bytes(0), 0, "")),
              !.focus = SYSTEM]

\* the six reserve_memory_region calls
reserve_regions(r) ==
    [r EXCEPT !.calls = @ \o
        <<Reserve(TRANSMISSIONS, Bytes(TRANSMISSION_DATA_SIZE)),
          Reserve(POSITION, Bytes(POSITION_DATA_SIZE)),
          Reserve(NEIGHBOUR_KEYS, Bytes(NEIGHBOUR_KEYS_SIZE)),
          Reserve(VELOCITY, Bytes(VELOCITY_SIZE)),
          Reserve(VERTEX_INDEX, Bytes(VERTEX_INDEX_SIZE)),
          Reserve(RESULTS, get_recording_header_size_1)>>]

\* the recording header: write_array(get_recording_header_array(
\* [RECORDING_ELEMENT_SIZE * data_n_time_steps])); the value logged is the
\* channel size the header is built for
write_recording_header(a, r) ==
    LET f == SwitchFocus(r, RESULTS)
    IN  Do(f, WriteArray(f.focus, RECORDING_ELEMENT_SIZE * a.n_time_steps))

\* is_single(partitions): exactly one item
is_single(partitions) == Cardinality(partitions) = 1

\* a variant of check_partitions that only rejects a node without partitions
check_partitions_nonempty(a, r) ==
    IF r.err # NoErr THEN r
    ELSE IF a.graph.parts = {}
         THEN Fail(r, Raise("ConfigurationException",
                            "Can only handle one type of partition.", 0))
         ELSE r

check_partitions(a, r) ==
    IF r.err # NoErr THEN r
    ELSE IF ~ is_single(a.graph.parts)
         THEN Fail(r, Raise("ConfigurationException",
                            "Can only handle one type of partition.", 0))
         ELSE r

\* a variant of check_edge_count that only rejects more than 8 edges
check_edge_count_over(a, r) ==
    IF r.err # NoErr THEN r
    ELSE IF Len(a.graph.edges) > 8
         THEN Fail(r, Raise("ConfigurationException",
                            "I've not got the right number of connections",
                            Len(a.graph.edges)))
         ELSE r

\* the text of the message carries len(get_edges_ending_at_vertex(self))
check_edge_count(a, r) ==
    IF r.err # NoErr THEN r
    ELSE IF Len(a.graph.edges) # 8
         THEN Fail(r, Raise("ConfigurationException",
                            "I've not got the right number of connections",
                            Len(a.graph.edges)))
         ELSE r

\* a variant of check_self_loop that looks at the first edge only
check_self_loop_first(a, r) ==
    IF r.err # NoErr THEN r
    ELSE IF Len(a.graph.edges) > 0 /\ a.graph.edges[1].pre_vertex = Self
         THEN Fail(r, Raise("ConfigurationException",
                            "I'm connected to myself", 0))
         ELSE r

check_self_loop(a, r) ==
    IF r.err # NoErr THEN r
    ELSE IF \E i \in 1..Len(a.graph.edges) : a.graph.edges[i].pre_vertex = Self
         THEN Fail(r, Raise("ConfigurationException",
                            "I'm connected to myself", 0))
         ELSE r

\* a variant of write_transmissions that tests the key for truth, so that the
\* key 0 counts as absent
write_transmissions_truthy(a, r) ==
    IF r.err # NoErr THEN r
    ELSE LET key == get_first_key_from_pre_vertex(a.routing, Self)
             has == key # None /\ Get(key) # 0
             f == SwitchFocus(r, TRANSMISSIONS)
             g == WriteValue(f, IF has THEN 1 ELSE 0, "UINT32")
         IN  WriteValue(g, IF has THEN Get(key) ELSE 0, "UINT32")

write_transmissions(a, r) ==
    IF r.err # NoErr THEN r
    ELSE LET key == get_first_key_from_pre_vertex(a.routing, Self)
             f == SwitchFocus(r, TRANSMISSIONS)
             g == WriteValue(f, IF key = None THEN 0 ELSE 1, "UINT32")
         IN  WriteValue(g, IF key = None THEN 0 ELSE Get(key), "UINT32")

\* int(self._x_position), int(self._y_position): the position, held in
\* halves, is truncated to an integer
write_position(n, r) ==
    IF r.err # NoErr THEN r
    ELSE LET f == SwitchFocus(r, POSITION)
         IN  WriteValue(WriteValue(f, Trunc(n.x_position, 2), "UINT32"),
                        Trunc(n.y_position, 2), "UINT32")

\* the name generate_offset is looked up when the statement runs: the module
\* neither defines nor imports it, so the call raises NameError unless the
\* name has been bound in the module from outside
write_vertex_index(a, r) ==
    IF r.err # NoErr THEN r
    ELSE LET f == WriteValue(SwitchFocus(r, VERTEX_INDEX), a.graph.index, "UINT32")
         IN  IF ~ a.bound
             THEN Fail(f, Raise("NameError", "generate_offset", 0))
             ELSE LET o == generate_offset(a.p, a.r1, a.r2)
                  IN  WriteValue([f EXCEPT !.offset = Some(o)], o, "UINT32")

write_neighbour_keys(n, a, r) ==
    IF r.err # NoErr THEN r ELSE write_key_data(n, a, r)

write_velocity(n, r) ==
    IF r.err # NoErr THEN r
    ELSE LET f == SwitchFocus(r, VELOCITY)
         IN  WriteValue(WriteValue(f, n.u_x, "FLOAT_32"), n.u_y, "FLOAT_32")

\* a variant of end_specification that is reached after an exception too
end_specification_always(r) == Do(r, EndSpec)

end_specification(r) ==
    IF r.err # NoErr THEN r ELSE Do(r, EndSpec)

\* a variant of generate_machine_data_specification that writes the regions
\* in the order of their numbers: NeighbourKeys and Velocity before VertexIndex
generate_machine_data_specification_by_number(n, a) ==
    LET r1 == write_recording_header(a, reserve_regions(system_data_region(NewRun(n))))
        r2 == check_self_loop(a, check_edge_count(a, check_partitions(a, r1)))
        r3 == write_neighbour_keys(n, a, write_position(n, write_transmissions(a, r2)))
    IN  end_specification(write_vertex_index(a, write_velocity(n, r3)))

generate_machine_data_specification(n, a) ==
    LET r1 == write_recording_header(a, reserve_regions(system_data_region(NewRun(n))))
        r2 == check_self_loop(a, check_edge_count(a, check_partitions(a, r1)))
        r3 == write_vertex_index(a, write_position(n, write_transmissions(a, r2)))
    IN  end_specification(write_velocity(n, write_neighbour_keys(n, a, r3)))

-----------------------------------------------------------------------------
(* LatticeBasicCell.resources_required                                     *)

\* a variant of fixed_sdram that leaves out the velocity region
fixed_sdram_no_velocity ==
    SizeAdd(SYSTEM_BYTES_REQUIREMENT,
    SizeAdd(Bytes(TRANSMISSION_DATA_SIZE),
    SizeAdd(Bytes(POSITION_DATA_SIZE),
    SizeAdd(Bytes(NEIGHBOUR_KEYS_SIZE),
    SizeAdd(Bytes(VERTEX_INDEX_SIZE),
    SizeAdd(get_recording_header_size_1,
            get_recording_data_constant_size_1))))))

fixed_sdram ==
    SizeAdd(SYSTEM_BYTES_REQUIREMENT,
    SizeAdd(Bytes(TRANSMISSION_DATA_SIZE),
    SizeAdd(Bytes(POSITION_DATA_SIZE),
    SizeAdd(Bytes(NEIGHBOUR_KEYS_SIZE),
    SizeAdd(Bytes(VELOCITY_SIZE),
    SizeAdd(Bytes(VERTEX_INDEX_SIZE),
    SizeAdd(get_recording_header_size_1,
            get_recording_data_constant_size_1)))))))

per_timestep_sdram == RECORDING_ELEMENT_SIZE

resources_required == [fixed |-> fixed_sdram, per_timestep |-> per_timestep_sdram]

-----------------------------------------------------------------------------
(* LatticeBasicCell.get_data                                               *)

\* A recorded sample is a 32-bit float, held as the three fields of its bit
\* pattern; the samples of the model are finite values
Float32(sign, exponent, fraction) ==
    [sign |-> sign, exponent |-> exponent, fraction |-> fraction]

Samples ==
    {Float32(s, e, f) : s \in {0, 1}, e \in {0, 127, 254}, f \in {0, 4194305}}

\* struct.pack of one "<f": the four bytes of the bit pattern (1 sign bit,
\* 8 exponent bits, 23 fraction bits), least significant byte first
pack_float_le(v) ==
    <<v.fraction % 256,
      (v.fraction \div 256) % 256,
      (v.exponent % 2) * 128 + v.fraction \div 65536,
      v.sign * 128 + v.exponent \div 2>>

\* the recording region after the samples have been written to it
RECURSIVE encode_samples(_)
encode_samples(vs) ==
    IF vs = <<>> THEN <<>>
    ELSE pack_float_le(Head(vs)) \o encode_samples(Tail(vs))

\* a variant of unpack_float_le that reads the bytes most significant first
unpack_float_be(b) ==
    Float32(b[1] \div 128,
            (b[1] % 128) * 2 + b[2] \div 128,
            (b[2] % 128) * 65536 + b[3] * 256 + b[4])

\* struct.unpack of one "<f": the float of four little-endian bytes
unpack_float_le(b) ==
    Float32(b[4] \div 128,
            (b[4] % 128) * 2 + b[3] \div 128,
            (b[3] % 128) * 65536 + b[2] * 256 + b[1])

\* struct.unpack("<{}f".format(count), raw): the buffer must hold exactly
\* 4 * count bytes, or struct.error is raised
struct_unpack(count, raw) ==
    IF Len(raw) # BYTES_PER_WORD * count
    THEN [err |-> Raise("struct.error", "unpack requires a buffer", BYTES_PER_WORD * count),
          value |-> <<>>]
    ELSE [err |-> NoErr,
          value |-> [i \in 1..count |->
                        unpack_float_le(SubSeq(raw, BYTES_PER_WORD * (i - 1) + 1,
                                               BYTES_PER_WORD * i))]]

\* get_data(buffer_manager, placement), the buffer manager having returned
\* (raw_data, data_missing); `logged` is the "missing_data" line printed
get_data(raw_data, data_missing) ==
    LET u == struct_unpack(Len(raw_data) \div BYTES_PER_WORD, raw_data)
    IN  [logged |-> data_missing, err |-> u.err, value |-> u.value]

-----------------------------------------------------------------------------
(* The state and the steps.                                                *)
(*   node       the attributes of the LatticeBasicCell                     *)
(*   gen        the last call of generate_machine_data_specification:      *)
(*              its arguments, the calls it made on the sink and how it    *)
(*              ended                                                      *)
(*   resources  the last value read from resources_required                *)
(*   off        the last call of generate_offset on its own                *)
(*   data       the samples recorded on the core and the last get_data     *)
(*   wired      for each direction, the vertex of the last call of         *)
(*              set_direction_vertex with that direction, None when there  *)
(*              has been none                                              *)

\* the position is kept in halves (x_position = 11 is 5.5), the velocity as
\* two float32 values named by integers
NodeInit == NewNode(11, 10, 1, -2)

GenIdle == [state |-> "idle", args |-> None, calls |-> <<>>, err |-> NoErr]

OffIdle == [state |-> "idle", p |-> 0, r1 |-> 0, r2 |-> 0, result |-> 0, draws |-> 0]

DataInit ==
    [state |-> "recording", samples |-> <<>>, raw |-> <<>>, missing |-> FALSE,
     logged |-> FALSE, err |-> NoErr, value |-> <<>>]

\* set_direction_vertex takes any direction: the eight of
\* ORDER_OF_DIRECTIONS and, standing for every other value, "UP"
DirectionArguments == Directions \cup {"UP"}

Init ==
    /\ wired = [d \in DirectionArguments |-> None]
    /\ node = NodeInit
    /\ gen = GenIdle
    /\ resources = None
    /\ off = OffIdle
    /\ data = DataInit

\* the vertices the grid builder hands to set_direction_vertex for direction
\* d: the neighbour of that direction and, for "S", also the neighbour of "E";
\* a direction outside ORDER_OF_DIRECTIONS gets the one vertex left
WireChoices(d) ==
    IF d \in Directions
    THEN {Proper(d)} \cup (IF d = "S" THEN {Proper("E")} ELSE {})
    ELSE {Len(ORDER_OF_DIRECTIONS) + 1}

\* a neighbour-wiring call, made before the node is deployed
SetDirectionVertex(d, v) ==
    /\ gen.state = "idle"
    /\ node' = set_direction_vertex(node, d, v)
    /\ wired' = [wired EXCEPT ![d] = Some(v)]
    /\ UNCHANGED <<gen, resources, off, data>>

\* one call of generate_machine_data_specification with arguments a
Generate(a) ==
    /\ gen.state = "idle"
    /\ LET r == generate_machine_data_specification(node, a)
       IN  /\ gen' = [state |-> IF r.err = NoErr THEN "ended" ELSE "raised",
                      args |-> Some(a), calls |-> r.calls, err |-> r.err]
           /\ node' = [node EXCEPT !.offset = r.offset]
    /\ UNCHANGED <<resources, off, data, wired>>

\* one read of the property resources_required
ResourcesRequired ==
    /\ resources = None
    /\ resources' = Some(resources_required)
    /\ UNCHANGED <<node, gen, off, data, wired>>

Next ==
    \/ \E d \in DirectionArguments : \E v \in WireChoices(d) : SetDirectionVertex(d, v)
    \/ \E a \in Arguments : Generate(a)

Spec == Init /\ [][Next]_vars

\* sizing and image generation of a node
NextResources ==
    \/ ResourcesRequired
    \/ \E a \in Arguments : Generate(a)

SpecResources == Init /\ [][NextResources]_vars

\* one call of generate_offset(p) with the next two draws r1, r2
GenerateOffset(p, r1, r2) ==
    /\ off' = [state |-> "returned", p |-> p, r1 |-> r1, r2 |-> r2,
               result |-> generate_offset(p, r1, r2),
               draws |-> draws_taken(p, r1)]
    /\ UNCHANGED <<node, gen, resources, data, wired>>

Cores == (0 - 2)..MaxCore

NextOffset == \E p \in Cores : \E r1 \in Draws : \E r2 \in Draws : GenerateOffset(p, r1, r2)

SpecOffset == Init /\ [][NextOffset]_vars

\* the core records one more sample
RecordSample(v) ==
    /\ data.state = "recording"
    /\ Len(data.samples) < MaxSamples
    /\ data' = [data EXCEPT !.samples = Append(@, v)]
    /\ UNCHANGED <<node, gen, resources, off, wired>>

\* get_data after the run: the buffer manager returns the first n bytes of
\* the recording with the flag data_missing; nothing is missing when it
\* returns them all
GetData(n, missing) ==
    /\ data.state = "recording"
    /\ LET all == encode_samples(data.samples)
       IN  /\ n <= Len(all)
           /\ missing \/ n = Len(all)
           /\ LET raw == SubSeq(all, 1, n)
                  g == get_data(raw, missing)
              IN  data' = [data EXCEPT
                              !.state = IF g.err = NoErr THEN "returned" ELSE "raised",
                              !.raw = raw, !.missing = missing,
                              !.logged = g.logged, !.err = g.err, !.value = g.value]
    /\ UNCHANGED <<node, gen, resources, off, wired>>

NextData ==
    \/ \E v \in Samples : RecordSample(v)
    \/ \E n \in 0..(BYTES_PER_WORD * MaxSamples) : \E m \in BOOLEAN : GetData(n, m)

SpecData == Init /\ [][NextData]_vars

-----------------------------------------------------------------------------
(* What the properties below read off a finished generation.               *)

Done == gen.state # "idle"

Args == Get(gen.args)

EdgesIn == Args.graph.edges

HasSelfLoop == \E i \in 1..Len(EdgesIn) : EdgesIn[i].pre_vertex = Self

SinglePartition == Cardinality(Args.graph.parts) = 1

\* the calls of one kind, in order
CallsOf(ops) == SelectSeq(gen.calls, LAMBDA c : c.op \in ops)

\* the values written (write_value, write_array) while region was in focus
Written(region) ==
    SelectSeq(gen.calls,
              LAMBDA c : c.op \in {"write_value", "write_array"} /\ c.region = region)

Ended == \E i \in 1..Len(gen.calls) : gen.calls[i].op = "end_specification"

\* all eight directions are wired
FullyWired == \A i \in 1..Len(node.loc) : node.loc[i].vertex # None

\* the wired neighbour of entry i has no routing info, or a key of None
Unresolved(i) ==
    \/ Args.routing[Get(node.loc[i].vertex)] = <<>>
    \/ Args.routing[Get(node.loc[i].vertex)][1].key = None

\* the graph passes the three checks of the writer, every incoming edge is
\* in the node's partition and every direction is wired
WellFormed ==
    /\ SinglePartition
    /\ Len(EdgesIn) = 8
    /\ ~ HasSelfLoop
    /\ \A i \in 1..Len(EdgesIn) : EdgesIn[i].partition = PARTITION_ID
    /\ FullyWired

DataRegions == {TRANSMISSIONS, POSITION, VERTEX_INDEX, NEIGHBOUR_KEYS, VELOCITY}

\* no value has been written to the five data regions
NoDataWritten == \A g \in DataRegions : Written(g) = <<>>

-----------------------------------------------------------------------------
(* C1 *)

\* C1 (as claimed): a node with exactly 8 incoming edges, none a self-loop,
\* and one outgoing partition is generated through end_specification without
\* raising, and the regions are reserved in the order System(0), 1, 2, 3, 4,
\* 5, 6 with sizes 8, 8, 36, 8, 8 for regions 1..5 and a size holding the
\* recording header for Results.  Stated for a fully wired node whose
\* incoming edges all lie in the node's partition and whose neighbours all
\* have keys; of the Results size only the header term is compared.
C1_SucceedsWithLayout ==
    (Done /\ WellFormed /\ \A i \in 1..Len(node.loc) : ~ Unresolved(i))
    => /\ gen.state = "ended"
       /\ Ended
       /\ LET rs == CallsOf({"generate_system_data_region", "reserve_memory_region"})
          IN  /\ [i \in 1..Len(rs) |-> rs[i].region]
                   = <<SYSTEM, TRANSMISSIONS, POSITION, NEIGHBOUR_KEYS, VELOCITY,
                       VERTEX_INDEX, RESULTS>>
              /\ [i \in 2..6 |-> rs[i].size]
                   = [i \in 2..6 |-> Bytes(<<0, 8, 8, 36, 8, 8>>[i])]
              /\ rs[7].size.hdr = 1

-----------------------------------------------------------------------------
(* C2 *)

\* the generation ended with the edge-count error, whose message carries
\* the number of incoming edges, and end_specification was not reached
CountErrorRaised ==
    /\ gen.state = "raised"
    /\ gen.err.kind = "ConfigurationException"
    /\ gen.err.text = "I've not got the right number of connections"
    /\ gen.err.count = Len(EdgesIn)
    /\ ~ Ended

\* C2 (as claimed): every generation for a node whose number of incoming
\* edges is not 8 ends with a ConfigurationException that reports the
\* actual count, before end_specification.
C2_AnyWrongCountReported == (Done /\ Len(EdgesIn) # 8) => CountErrorRaised

\* C2 (amended): the same, for a node that has exactly one outgoing
\* partition (the partition check comes first and reports no count).
C2_WrongCountReported ==
    (Done /\ SinglePartition /\ Len(EdgesIn) # 8) => CountErrorRaised

C2_Witness ==
    /\ Done /\ SinglePartition /\ Len(EdgesIn) = 7
    /\ gen.err.count = 7

-----------------------------------------------------------------------------
(* C3 *)

\* C3 (as claimed): a node with an incoming edge from itself fails with a
\* configuration error and no write_value / write_array call has been made.
C3_SelfLoopFailsBeforeAnyWrite ==
    (Done /\ HasSelfLoop)
    => /\ gen.state = "raised"
       /\ gen.err.kind = "ConfigurationException"
       /\ CallsOf({"write_value", "write_array"}) = <<>>

\* C3 (amended): a node with an incoming edge from itself fails with a
\* configuration error; at that moment the only value written by the method
\* is the recording header of the Results region, and nothing has been
\* written to Transmissions, Position, VertexIndex, NeighbourKeys, Velocity.
C3_SelfLoopFailsBeforeDataRegions ==
    (Done /\ HasSelfLoop)
    => /\ gen.state = "raised"
       /\ gen.err.kind = "ConfigurationException"
       /\ ~ Ended
       /\ NoDataWritten
       /\ CallsOf({"write_value", "write_array"})
            = <<WriteArray(RESULTS, RECORDING_ELEMENT_SIZE * Args.n_time_steps)>>

C3_Witness ==
    /\ Done /\ HasSelfLoop /\ SinglePartition /\ Len(EdgesIn) = 8
    /\ gen.err.text = "I'm connected to myself"

-----------------------------------------------------------------------------
(* C4 *)

\* the NeighbourKeys slot expected for entry i of the dictionary
ExpectedSlot(i) ==
    IF Unresolved(i) THEN -1 ELSE Get(Args.routing[Get(node.loc[i].vertex)][1].key)

\* C4 (as claimed): when a wired neighbour has no resolvable key (no routing
\* info, or a key of None), its NeighbourKeys slot is -1, the other slots
\* hold the neighbours' keys, and generation completes.  Stated for a well
\* formed node with generate_offset available.
C4_UnresolvedKeyIsMinusOne ==
    (Done /\ WellFormed /\ Args.bound /\ \E i \in 1..Len(node.loc) : Unresolved(i))
    => /\ gen.state = "ended"
       /\ Ended
       /\ Len(Written(NEIGHBOUR_KEYS)) = Len(node.loc) + 1
       /\ \A i \in 1..Len(node.loc) :
             Written(NEIGHBOUR_KEYS)[i].value = ExpectedSlot(i)

-----------------------------------------------------------------------------
(* C5 *)

\* C5: a generation for a node that does not have exactly one outgoing
\* partition (none, or two or more) raises a ConfigurationException, and
\* Transmissions, Position, VertexIndex, NeighbourKeys and Velocity have
\* received no value.
C5_PartitionCheckFirst ==
    (Done /\ ~ SinglePartition)
    => /\ gen.state = "raised"
       /\ gen.err.kind = "ConfigurationException"
       /\ gen.err.text = "Can only handle one type of partition."
       /\ ~ Ended
       /\ NoDataWritten

C5_Witness ==
    /\ Done /\ Cardinality(Args.graph.parts) = 2
    /\ Len(EdgesIn) = 8 /\ FullyWired
    /\ gen.state = "raised"

-----------------------------------------------------------------------------
(* C6 *)

\* the sum of the sizes of the reserve_memory_region calls of the method
RECURSIVE SumSizes(_)
SumSizes(cs) ==
    IF cs = <<>> THEN Bytes(0) ELSE SizeAdd(Head(cs).size, SumSizes(Tail(cs)))

ReservedTotal == SumSizes(CallsOf({"reserve_memory_region"}))

\* C6 (as claimed): the fixed total is System + 8 + 8 + 36 + 8 + 8 + the
\* recording header for one channel and nothing more, the per-timestep cost
\* is 4, and the fixed part is System plus what the generation reserves.
C6_FixedIsLiteralSum ==
    resources # None
    => /\ Get(resources).fixed = Size(68, 1, 1, 0)
       /\ Get(resources).per_timestep = 4
       /\ Done => Get(resources).fixed = SizeAdd(SYSTEM_BYTES_REQUIREMENT, ReservedTotal)

\* C6 (amended): the fixed total is System + 8 + 8 + 36 + 8 + 8 + the
\* recording header for one channel + the recording data constant size for
\* one channel, the per-timestep cost is 4, and the fixed part is System
\* plus what the generation reserves plus that constant size.
C6_FixedIsSumWithConstant ==
    resources # None
    => /\ Get(resources).fixed = Size(68, 1, 1, 1)
       /\ Get(resources).per_timestep = 4
       /\ Done => Get(resources).fixed =
                    SizeAdd(SizeAdd(SYSTEM_BYTES_REQUIREMENT, ReservedTotal),
                            Size(0, 0, 0, 1))

C6_Witness == resources # None /\ Done /\ Len(CallsOf({"reserve_memory_region"})) = 6

-----------------------------------------------------------------------------
(* C7 *)

\* C7: generate_offset returns at most max_offset (1500).  When the ceiling
\* of (p - r1) / 14 * 1500 is at most 1500 that ceiling is returned; when it
\* exceeds 1500 the value 1500 - r2 / 10 * 1500 is returned, truncated to an
\* integer.  (The draws are r1 / DrawDen and r2 / DrawDen.)
C7_OffsetAtMostMax ==
    off.state = "returned"
    => LET x == (off.p * DrawDen - off.r1) * 1500  \* (p - r1) * 1500, times DrawDen
           d == 14 * DrawDen
           y == 1500 * 10 * DrawDen - off.r2 * 1500 \* fallback, times 10 * DrawDen
           e == 10 * DrawDen
       IN  /\ off.result <= 1500
           /\ x <= 1500 * d
                => (off.result * d >= x /\ (off.result - 1) * d < x)
           /\ x > 1500 * d
                => (off.result * e <= y /\ (off.result + 1) * e > y)

C7_Witness ==
    /\ off.state = "returned"
    /\ off.draws = 2
    /\ off.r2 > 0
    /\ off.result < 1500

-----------------------------------------------------------------------------
(* C8 *)

-----------------------------------------------------------------------------
(* C9 *)

\* C9 (as claimed): when the buffer manager reports missing data, get_data
\* does not fail for a buffer of any length L: it logs the gap and returns
\* the L / 4 samples decoded from the bytes retrieved.
C9_MissingDataDecodesPrefix ==
    (data.state # "recording" /\ data.missing)
    => /\ data.state = "returned"
       /\ data.logged
       /\ Len(data.value) = Len(data.raw) \div BYTES_PER_WORD
       /\ \A i \in 1..Len(data.value) : data.value[i] = data.samples[i]

-----------------------------------------------------------------------------
(* C10 *)

\* two of the incoming edges have the same source
DuplicateSources ==
    \E i, j \in 1..Len(EdgesIn) :
        i # j /\ EdgesIn[i].pre_vertex = EdgesIn[j].pre_vertex

\* two directions are wired to the same neighbour
DuplicateNeighbours ==
    \E i, j \in 1..Len(node.loc) :
        i # j /\ node.loc[i].vertex # None /\ node.loc[i].vertex = node.loc[j].vertex

\* C10 (as claimed): when two of the eight incoming edges come from the same
\* source, or two directions are wired to the same neighbour, generation
\* fails with a configuration error and NeighbourKeys is not written.
\* Stated for a node that is otherwise well formed.
C10_DuplicatesRejected ==
    (Done /\ WellFormed /\ (DuplicateSources \/ DuplicateNeighbours))
    => /\ gen.state = "raised"
       /\ gen.err.kind = "ConfigurationException"
       /\ Written(NEIGHBOUR_KEYS) = <<>>

-----------------------------------------------------------------------------
(* C11 *)

\* the regions write focus was switched to by the method, in order
FocusOrder ==
    LET fs == CallsOf({"switch_write_focus"})
    IN  [i \in 1..Len(fs) |-> fs[i].region]

\* the order of the write phases of a generation that runs to its end
PhaseOrder == <<RESULTS, TRANSMISSIONS, POSITION, VERTEX_INDEX, NEIGHBOUR_KEYS, VELOCITY>>

\* the calls that move write focus
FocusMoves == {"switch_write_focus", "generate_system_data_region"}

\* the region in focus just before call i: that of the last call before i
\* that moved focus, -1 when there is none
FocusBefore(i) ==
    LET js == {j \in 1..(i - 1) : gen.calls[j].op \in FocusMoves}
    IN  IF js = {} THEN -1
        ELSE gen.calls[CHOOSE j \in js : \A k \in js : k <= j].region

\* C11: in every generation write focus is switched to each region at most
\* once and in the order Results, Transmissions, Position, VertexIndex,
\* NeighbourKeys, Velocity (a generation that raises stops somewhere along
\* it); every write_value / write_array goes to the region in focus; a
\* generation that does not raise goes through all six and its last call,
\* and only that one, is end_specification.
C11_PhasesOrdered ==
    Done
    => /\ \A i, j \in 1..Len(FocusOrder) : FocusOrder[i] = FocusOrder[j] => i = j
       /\ Len(FocusOrder) <= Len(PhaseOrder)
       /\ FocusOrder = SubSeq(PhaseOrder, 1, Len(FocusOrder))
       /\ \A i \in 1..Len(gen.calls) :
             gen.calls[i].op \in {"write_value", "write_array"}
             => gen.calls[i].region = FocusBefore(i) /\ FocusBefore(i) # -1
       /\ \A i \in 1..Len(gen.calls) :
             gen.calls[i].op = "end_specification" => i = Len(gen.calls)
       /\ gen.state = "ended"
             => /\ FocusOrder = PhaseOrder
                /\ gen.calls[Len(gen.calls)] = EndSpec

C11_Witness ==
    /\ gen.state = "ended"
    /\ FocusOrder = PhaseOrder
    /\ Len(Written(NEIGHBOUR_KEYS)) = 9
    /\ gen.calls[Len(gen.calls)].op = "end_specification"

-----------------------------------------------------------------------------
(* C12 *)

\* one of the three checks of the writer rejects the graph
CheckFails == ~ SinglePartition \/ Len(EdgesIn) # 8 \/ HasSelfLoop

\* the messages of the three checks
CheckMessages ==
    {"Can only handle one type of partition.",
     "I've not got the right number of connections",
     "I'm connected to myself"}

\* C12: when one of the three checks (outgoing-partition count, incoming-edge
\* count, self-loop) fails, the generation ends with that exception handed to
\* the caller and makes no sink call after the check: the calls made are the
\* nine that precede the checks (System, six reserves, the switch to Results
\* and the recording header), and end_specification is not among them.  No
\* generation that raises, whatever the exception, calls end_specification.
C12_FailureAborts ==
    /\ (Done /\ CheckFails)
       => /\ gen.state = "raised"
          /\ gen.err.kind = "ConfigurationException"
          /\ gen.err.text \in CheckMessages
          /\ Len(gen.calls) = 9
          /\ FocusOrder = <<RESULTS>>
          /\ gen.calls[Len(gen.calls)].op = "write_array"
          /\ ~ Ended
    /\ gen.state = "raised" => ~ Ended

C12_Witness ==
    /\ Done /\ SinglePartition /\ Len(EdgesIn) = 9 /\ FullyWired
    /\ gen.state = "raised"
    /\ Len(gen.calls) = 9

-----------------------------------------------------------------------------
(* C13 *)

\* the edges ending at the node that lie in the node's own partition
StateEdgesIn == SelectSeq(EdgesIn, LAMBDA e : e.partition = PARTITION_ID)

\* _write_key_data was called: its first statement switches to NeighbourKeys
ResolverInvoked ==
    \E i \in 1..Len(gen.calls) : gen.calls[i] = Focus(NEIGHBOUR_KEYS)

-----------------------------------------------------------------------------
(* C14 *)

\* each of the eight compass directions has been wired at least once, and no
\* other direction has
CompassWired ==
    \A d \in DirectionArguments : (wired[d] # None) <=> (d \in Directions)

\* the first key/mask pair the routing service holds for the neighbour most
\* recently wired to direction d
FirstPairOf(d) == Args.routing[Get(wired[d])][1]

-----------------------------------------------------------------------------
(* C15 *)

\* the first key the routing service holds for the node's own partition,
\* None when it holds no routing info for the node or a key of None
OwnKey ==
    IF Args.routing[Self] = <<>> THEN None ELSE Args.routing[Self][1].key

\* the values written to a region, in order
ValuesWritten(region) ==
    [i \in 1..Len(Written(region)) |-> Written(region)[i].value]

\* C15: a generation that passes the three checks writes exactly two words
\* to Transmissions: 1 and the key when the routing service has a first key
\* for the node's STATE partition, the key 0 included, and 0 and 0 when it
\* has none; the first word is 1 exactly when a key is present.
C15_TransmissionsFlagAndKey ==
    (Done /\ ~ CheckFails)
    => /\ Len(Written(TRANSMISSIONS)) = 2
       /\ OwnKey # None => ValuesWritten(TRANSMISSIONS) = <<1, Get(OwnKey)>>
       /\ OwnKey = None => ValuesWritten(TRANSMISSIONS) = <<0, 0>>
       /\ (ValuesWritten(TRANSMISSIONS)[1] = 1) <=> (OwnKey # None)

C15_Witness ==
    /\ Done /\ ~ CheckFails
    /\ OwnKey = Some(0)
    /\ ValuesWritten(TRANSMISSIONS) = <<1, 0>>

-----------------------------------------------------------------------------
(* C16 *)

\* the entry that the dictionary holds for direction d, <<>> when it has no
\* such key
EntryOf(n, d) ==
    IF HasKey(n.loc, d) THEN <<Lookup(n.loc, d)>> ELSE <<>>

\* the step is a call of set_direction_vertex
WiringStep == wired' # wired \/ (node'.loc # node.loc)

\* the step is a call of generate_machine_data_specification, a read of
\* resources_required or a call of get_data
ConsumingStep ==
    \/ gen.state = "idle" /\ gen'.state # "idle"
    \/ resources' # resources
    \/ data.state = "recording" /\ data'.state # "recording"

-----------------------------------------------------------------------------
(* C17 *)

\* the bytes one call puts into the region in focus: a word for write_value,
\* the recording header of one channel for the write_array of the method
BytesOfCall(c) ==
    IF c.op = "write_value" THEN Bytes(BYTES_PER_WORD)
    ELSE IF c.op = "write_array" THEN get_recording_header_size_1
    ELSE Bytes(0)

\* the bytes written to region by the first k calls of the generation
RECURSIVE BytesWritten(_, _)
BytesWritten(k, region) ==
    IF k = 0 THEN Bytes(0)
    ELSE SizeAdd(BytesWritten(k - 1, region),
                 IF gen.calls[k].region = region
                 THEN BytesOfCall(gen.calls[k]) ELSE Bytes(0))

\* the size passed to reserve_memory_region for region
ReservedFor(region) ==
    LET rs == SelectSeq(gen.calls,
                        LAMBDA c : c.op = "reserve_memory_region" /\ c.region = region)
    IN  SumSizes(rs)

SizeAtMost(a, b) ==
    a.bytes <= b.bytes /\ a.sys <= b.sys /\ a.hdr <= b.hdr /\ a.cst <= b.cst

=============================================================================
